---- MODULE Spec2Model ----
(***************************************************************************)
(* A model of the crossandra tokenizer core: the literal prefix tree       *)
(* (src/src/tree.rs), the pattern preprocessor (src/src/patterns.rs) and   *)
(* the dispatch loop that the tests of src/src/common.rs exercise.         *)
(*                                                                         *)
(* A string is a sequence of characters; a character is a one-character    *)
(* TLA+ string, a character outside ASCII being named by its code point    *)
(* ("U+00E9" is e-acute, two bytes of UTF-8; "U+20AC" is the euro sign,    *)
(* three bytes).  Byte offsets and character indices are kept apart, as    *)
(* Rust's str::len, char_indices and len_utf8 keep them apart.             *)
(***************************************************************************)
EXTENDS Naturals, Sequences, FiniteSets, TLC

VARIABLES
    phase,          \* position of the run: which operation has acted
    literals,       \* generate_tree's argument: sequence of [name, literal]
    tree,           \* the Tree generate_tree returned
    input,          \* the text probed or scanned
    matched,        \* Option<(prefix, value)> of match_longest_prefix
    pattern,        \* force_start_anchor's argument
    anchored,       \* force_start_anchor's result
    patterns,       \* prepare's argument: sequence of [name, source]
    prepared,       \* prepare's Result
    convert_crlf,   \* the tokenizer's CRLF option
    scans,          \* the lazy scans in progress: each one's cursor and what it yielded
    collected       \* the aggregate scan's Result

vars == <<phase, literals, tree, input, matched, pattern, anchored, patterns, prepared,
          convert_crlf, scans, collected>>

---------------------------------------------------------------------------
(* Bounds of the model. *)

MaxLits == 2
MaxLitLen == 2
MaxInputLen == 3
MaxPatLen == 4
MaxPats == 2
MaxScanLen == 3

---------------------------------------------------------------------------
(* Option<T> and strings. *)

None == <<>>
Some(x) == <<x>>
IsSome(o) == o # <<>>

\* char::len_utf8 for the characters of the model.
len_utf8(c) ==
    CASE c = "U+00E9" -> 2
      [] c = "U+20AC" -> 3
      [] OTHER -> 1

\* str::len: the length in bytes.
RECURSIVE str_len(_)
str_len(s) ==
    IF s = <<>> THEN 0 ELSE len_utf8(Head(s)) + str_len(Tail(s))

\* The byte offset of the character at (1-based) index i, as char_indices gives it.
ByteOffset(s, i) == str_len(SubSeq(s, 1, i - 1))

\* What a slice that is not on a character boundary gives: the thread panics.
Panic == <<"!panic">>

\* &input[..pos], pos in bytes.
SliceTo(s, pos) ==
    IF \E k \in 0..Len(s) : str_len(SubSeq(s, 1, k)) = pos
    THEN SubSeq(s, 1, CHOOSE k \in 0..Len(s) : str_len(SubSeq(s, 1, k)) = pos)
    ELSE Panic

IsPrefix(p, s) == Len(p) <= Len(s) /\ SubSeq(s, 1, Len(p)) = p

\* All strings over alphabet A of at most n characters.
RECURSIVE StringsUpTo(_, _)
StringsUpTo(A, n) ==
    IF n = 0 THEN {<<>>}
    ELSE LET shorter == StringsUpTo(A, n - 1)
         IN shorter \cup {Append(s, c) : s \in shorter, c \in A}

\* All sequences over S of at most n elements.
RECURSIVE SeqsUpTo(_, _)
SeqsUpTo(S, n) ==
    IF n = 0 THEN {<<>>}
    ELSE LET shorter == SeqsUpTo(S, n - 1)
         IN shorter \cup {Append(s, x) : s \in shorter, x \in S}

---------------------------------------------------------------------------
(* tree.rs: the literal prefix tree. *)

\* Tree::default(): no value, no children.
TreeDefault == [value |-> None, children |-> <<>>]

\* A faulty variant of Tree::leaf that leaves the value out.
leaf_without_value(value) == [value |-> None, children |-> <<>>]

\* Tree::leaf(value).
leaf(value) == [value |-> Some(value), children |-> <<>>]

\* A faulty variant of the while loop that puts a fresh leaf at the end of the
\* literal's path, whatever is there.
RECURSIVE InsertLiteralAsLeaf(_, _, _, _)
InsertLiteralAsLeaf(current, name, literal, i) ==
    IF i > Len(literal) THEN current
    ELSE LET c == literal[i]
             occupied == c \in DOMAIN current.children
         IN IF i < Len(literal)
            THEN LET child == IF occupied THEN current.children[c] ELSE TreeDefault
                 IN [current EXCEPT
                        !.children = (c :> InsertLiteralAsLeaf(child, name, literal, i + 1)) @@ @]
            ELSE [current EXCEPT !.children = (c :> leaf(name)) @@ @]

\* The body of generate_tree's while loop from character i of the literal on.
RECURSIVE InsertLiteral(_, _, _, _)
InsertLiteral(current, name, literal, i) ==
    IF i > Len(literal) THEN current
    ELSE LET c == literal[i]
             occupied == c \in DOMAIN current.children
         IN IF i < Len(literal)
            THEN LET child == IF occupied THEN current.children[c] ELSE TreeDefault
                 IN [current EXCEPT
                        !.children = (c :> InsertLiteral(child, name, literal, i + 1)) @@ @]
            ELSE LET node == IF occupied
                             THEN [current.children[c] EXCEPT !.value = Some(name)]
                             ELSE leaf(name)
                 IN [current EXCEPT !.children = (c :> node) @@ @]

\* A faulty variant of the sort that is not stable: it reverses the entries of
\* equal length.
RECURSIVE SortedItemsReversingTies(_)
SortedItemsReversingTies(items) ==
    IF items = <<>> THEN <<>>
    ELSE LET x == Head(items)
             rest == SortedItemsReversingTies(Tail(items))
             longer == {k \in 1..Len(rest) : str_len(rest[k].literal) >= str_len(x.literal)}
             n == Cardinality(longer)
         IN SubSeq(rest, 1, n) \o <<x>> \o SubSeq(rest, n + 1, Len(rest))

\* sort_by_key(Reverse(literal.len())): stable, by descending length in bytes.
RECURSIVE SortedItems(_)
SortedItems(items) ==
    IF items = <<>> THEN <<>>
    ELSE LET x == Head(items)
             rest == SortedItems(Tail(items))
             longer == {k \in 1..Len(rest) : str_len(rest[k].literal) > str_len(x.literal)}
             n == Cardinality(longer)
         IN SubSeq(rest, 1, n) \o <<x>> \o SubSeq(rest, n + 1, Len(rest))

RECURSIVE InsertAll(_, _, _)
InsertAll(root, items, k) ==
    IF k > Len(items) THEN root
    ELSE InsertAll(InsertLiteral(root, items[k].name, items[k].literal, 1), items, k + 1)

generate_tree(lits) == InsertAll(TreeDefault, SortedItems(lits), 1)

\* The loop of match_longest_prefix from character i of the input on.
RECURSIVE MatchFrom(_, _, _, _, _)
MatchFrom(node, inp, i, longest_match_value, current_pos) ==
    IF i > Len(inp)
    THEN IF IsSome(node.value)
         THEN Some([prefix |-> SliceTo(inp, current_pos), value |-> node.value[1]])
         ELSE longest_match_value
    ELSE LET ch == inp[i]
             longest == IF IsSome(node.value)
                        THEN Some([prefix |-> SliceTo(inp, current_pos),
                                   value |-> node.value[1]])
                        ELSE longest_match_value
         IN IF ch \notin DOMAIN node.children
            THEN longest
            ELSE MatchFrom(node.children[ch], inp, i + 1, longest,
                           current_pos + len_utf8(ch))

\* A faulty variant of match_longest_prefix that forgets the node reached when the
\* input runs out.
RECURSIVE MatchFromNoFinal(_, _, _, _, _)
MatchFromNoFinal(node, inp, i, longest_match_value, current_pos) ==
    IF i > Len(inp)
    THEN longest_match_value
    ELSE LET ch == inp[i]
             longest == IF IsSome(node.value)
                        THEN Some([prefix |-> SliceTo(inp, current_pos),
                                   value |-> node.value[1]])
                        ELSE longest_match_value
         IN IF ch \notin DOMAIN node.children
            THEN longest
            ELSE MatchFromNoFinal(node.children[ch], inp, i + 1, longest,
                                  current_pos + len_utf8(ch))

match_longest_prefix_no_final(t, inp) == MatchFromNoFinal(t, inp, 1, None, 0)

\* A faulty variant of match_longest_prefix that returns the first value it meets.
RECURSIVE MatchFromFirst(_, _, _, _)
MatchFromFirst(node, inp, i, current_pos) ==
    IF IsSome(node.value)
    THEN Some([prefix |-> SliceTo(inp, current_pos), value |-> node.value[1]])
    ELSE IF i > Len(inp) \/ inp[i] \notin DOMAIN node.children
         THEN None
         ELSE MatchFromFirst(node.children[inp[i]], inp, i + 1, current_pos + len_utf8(inp[i]))

match_longest_prefix_first(t, inp) == MatchFromFirst(t, inp, 1, 0)

\* A faulty variant of match_longest_prefix that advances current_pos by one for
\* each character, whatever its length in bytes.
RECURSIVE MatchFromCharPos(_, _, _, _, _)
MatchFromCharPos(node, inp, i, longest_match_value, current_pos) ==
    IF i > Len(inp)
    THEN IF IsSome(node.value)
         THEN Some([prefix |-> SliceTo(inp, current_pos), value |-> node.value[1]])
         ELSE longest_match_value
    ELSE LET ch == inp[i]
             longest == IF IsSome(node.value)
                        THEN Some([prefix |-> SliceTo(inp, current_pos),
                                   value |-> node.value[1]])
                        ELSE longest_match_value
         IN IF ch \notin DOMAIN node.children
            THEN longest
            ELSE MatchFromCharPos(node.children[ch], inp, i + 1, longest, current_pos + 1)

match_longest_prefix_char_pos(t, inp) == MatchFromCharPos(t, inp, 1, None, 0)

match_longest_prefix(t, inp) == MatchFrom(t, inp, 1, None, 0)

---------------------------------------------------------------------------
(* patterns.rs: the pattern preprocessor. *)

\* The character before index k, '\0' before the first.
PrevChar(p, k) == IF k = 1 THEN "\\0" ELSE p[k - 1]

\* The filter of force_start_anchor: a caret not preceded by '[' or '\'.
IsAnchor(p, k) == p[k] = "^" /\ PrevChar(p, k) \notin {"[", "\\"}

\* anchor_indices: char_indices gives each character's offset in bytes.
anchor_indices(p) == {ByteOffset(p, k) : k \in {j \in 1..Len(p) : IsAnchor(p, j)}}

\* chars().enumerate().filter_map(..): enumerate counts characters, from 0.
RECURSIVE KeepFrom(_, _, _)
KeepFrom(p, k, indices) ==
    IF k > Len(p) THEN <<>>
    ELSE (IF (k - 1) \in indices THEN <<>> ELSE <<p[k]>>) \o KeepFrom(p, k + 1, indices)

\* format!("^(?:{})", ..).
Wrap(body) == <<"^", "(", "?", ":">> \o body \o <<")">>

force_start_anchor(p) == Wrap(KeepFrom(p, 1, anchor_indices(p)))

\* A faulty variant of adjust that keeps one entry per name, the last one.
adjust_one_per_name(ps) ==
    LET kept == SelectSeq([k \in 1..Len(ps) |-> k],
                          LAMBDA k : \A j \in (k + 1)..Len(ps) : ps[j].name # ps[k].name)
    IN [i \in 1..Len(kept) |->
            [name |-> ps[kept[i]].name, source |-> force_start_anchor(ps[kept[i]].source)]]

adjust(ps) ==
    [k \in 1..Len(ps) |-> [name |-> ps[k].name, source |-> force_start_anchor(ps[k].source)]]

HexDigits == {"0", "1", "2", "3", "4", "5", "6", "7", "8", "9"}
Quantifiers == {"+", "*", "?"}

\* The index of the ']' that closes the class opened before index k, 0 if none.
RECURSIVE ClassEnd(_, _)
ClassEnd(src, k) ==
    IF k > Len(src) THEN 0
    ELSE IF src[k] = "\\" THEN ClassEnd(src, k + 2)
    ELSE IF src[k] = "]" THEN k
    ELSE ClassEnd(src, k + 1)

\* The syntax check of the regex engine, left to right from index k: depth counts
\* the open groups, atom says whether something repeatable precedes.
RECURSIVE ParseFrom(_, _, _, _)
ParseFrom(src, k, depth, atom) ==
    IF k > Len(src)
    THEN IF depth > 0 THEN Some([kind |-> "UnclosedGroup", at |-> Len(src)]) ELSE None
    ELSE LET c == src[k] IN
         CASE c = "\\" ->
                IF k = Len(src) THEN Some([kind |-> "TrailingBackslash", at |-> k - 1])
                ELSE IF src[k + 1] = "x"
                        /\ ~(k + 3 <= Len(src) /\ {src[k + 2], src[k + 3]} \subseteq HexDigits)
                     THEN Some([kind |-> "InvalidHex", at |-> k - 1])
                     ELSE ParseFrom(src, k + 2, depth, TRUE)
           [] c = "[" ->
                LET start == IF k < Len(src) /\ src[k + 1] = "^" THEN k + 2 ELSE k + 1
                    close == ClassEnd(src, start)
                IN IF close = 0 THEN Some([kind |-> "UnclosedClass", at |-> k - 1])
                   ELSE ParseFrom(src, close + 1, depth, TRUE)
           [] c = "(" ->
                IF k + 2 <= Len(src) /\ src[k + 1] = "?" /\ src[k + 2] = ":"
                THEN ParseFrom(src, k + 3, depth + 1, FALSE)
                ELSE ParseFrom(src, k + 1, depth + 1, FALSE)
           [] c = ")" ->
                IF depth = 0 THEN Some([kind |-> "UnopenedGroup", at |-> k - 1])
                ELSE ParseFrom(src, k + 1, depth - 1, TRUE)
           [] c = "|" -> ParseFrom(src, k + 1, depth, FALSE)
           [] c \in Quantifiers ->
                IF ~atom THEN Some([kind |-> "TargetNotRepeatable", at |-> k - 1])
                ELSE ParseFrom(src, k + 1, depth, TRUE)
           [] OTHER -> ParseFrom(src, k + 1, depth, TRUE)

\* Regex::new(val): the compiled regex, which keeps its source (as_str), or the
\* engine's error.
RegexNew(val) ==
    LET e == ParseFrom(val, 1, 0, FALSE)
    IN IF IsSome(e) THEN [ok |-> FALSE, error |-> e[1]]
       ELSE [ok |-> TRUE, value |-> [as_str |-> val]]

\* The closure of compile on one (key, val).
CompileOne(p) ==
    LET r == RegexNew(p.source)
    IN IF r.ok THEN [ok |-> TRUE, value |-> [name |-> p.name, regex |-> r.value]]
       ELSE [ok |-> FALSE, error |-> [kind |-> "InvalidRegex", cause |-> r.error]]

\* collect::<Result<Vec<_>, _>>() from item k on: the first Err ends it.
RECURSIVE CollectFrom(_, _, _)
CollectFrom(ps, k, acc) ==
    IF k > Len(ps) THEN [ok |-> TRUE, value |-> acc]
    ELSE LET r == CompileOne(ps[k])
         IN IF r.ok THEN CollectFrom(ps, k + 1, Append(acc, r.value))
            ELSE [ok |-> FALSE, error |-> r.error]

\* A faulty variant of compile that drops the patterns that fail to compile.
RECURSIVE CollectValidFrom(_, _, _)
CollectValidFrom(ps, k, acc) ==
    IF k > Len(ps) THEN [ok |-> TRUE, value |-> acc]
    ELSE LET r == CompileOne(ps[k])
         IN CollectValidFrom(ps, k + 1, IF r.ok THEN Append(acc, r.value) ELSE acc)

compile_skip_invalid(ps) == CollectValidFrom(ps, 1, <<>>)

\* A faulty variant of compile that reports the last failure rather than the first.
RECURSIVE CollectLastErrFrom(_, _, _, _)
CollectLastErrFrom(ps, k, acc, err) ==
    IF k > Len(ps)
    THEN IF IsSome(err) THEN [ok |-> FALSE, error |-> err[1]] ELSE [ok |-> TRUE, value |-> acc]
    ELSE LET r == CompileOne(ps[k])
         IN IF r.ok THEN CollectLastErrFrom(ps, k + 1, Append(acc, r.value), err)
            ELSE CollectLastErrFrom(ps, k + 1, acc, Some(r.error))

compile_last_error(ps) == CollectLastErrFrom(ps, 1, <<>>, None)

compile(ps) == CollectFrom(ps, 1, <<>>)

prepare(ps) == compile(adjust(ps))

---------------------------------------------------------------------------
(* The prefix tree's runs: build a tree from a literal list, then probe it. *)

TreeChars == {"+", "U+00E9"}
TreeNames == {"a", "b"}

LiteralEntries ==
    [name : TreeNames, literal : StringsUpTo(TreeChars, MaxLitLen)]

\* No tokenizer is built and nothing is scanned.
NoScan ==
    /\ convert_crlf = TRUE
    /\ scans = <<>>
    /\ collected = None

Idle ==
    /\ pattern = <<>>
    /\ anchored = <<>>
    /\ patterns = <<>>
    /\ prepared = None
    /\ NoScan

TreeInit ==
    /\ phase = "literals"
    /\ literals \in SeqsUpTo(LiteralEntries, MaxLits)
    /\ tree = TreeDefault
    /\ input = <<>>
    /\ matched = None
    /\ Idle

GenerateTree ==
    /\ phase = "literals"
    /\ tree' = generate_tree(literals)
    /\ phase' = "tree"
    /\ UNCHANGED <<literals, input, matched, pattern, anchored, patterns, prepared,
                   convert_crlf, scans, collected>>

MatchLongestPrefix ==
    /\ phase = "tree"
    /\ \E s \in StringsUpTo(TreeChars, MaxInputLen) :
          /\ input' = s
          /\ matched' = match_longest_prefix(tree, s)
    /\ phase' = "matched"
    /\ UNCHANGED <<literals, tree, pattern, anchored, patterns, prepared,
                   convert_crlf, scans, collected>>

TreeNext == GenerateTree \/ MatchLongestPrefix

SpecTree == TreeInit /\ [][TreeNext]_vars

---------------------------------------------------------------------------
(* Claims about the prefix tree. *)

\* The length in characters of what a probe returned; no match counts as 0.
MatchedLen == IF IsSome(matched) THEN Len(matched[1].prefix) ELSE 0

\* C1: for every literal list and every input, the match that
\* match_longest_prefix returns on generate_tree's tree is never shorter than
\* any literal of the list that is a prefix of the input, so never shorter than
\* the longest of them.
C1_LongestLiteralWins ==
    phase = "matched" =>
        \A k \in 1..Len(literals) :
            IsPrefix(literals[k].literal, input) =>
                /\ MatchedLen >= Len(literals[k].literal)
                /\ (literals[k].literal # <<>> => IsSome(matched))

\* C1's case: two literals of different lengths are both prefixes of the input
\* and the match is the longer one.
C1_Witness ==
    /\ phase = "matched"
    /\ Len(literals) = 2
    /\ literals[1].literal # <<>>
    /\ Len(literals[2].literal) > Len(literals[1].literal)
    /\ IsPrefix(literals[1].literal, input)
    /\ IsPrefix(literals[2].literal, input)
    /\ IsSome(matched)
    /\ matched[1].prefix = literals[2].literal

\* C14: whenever match_longest_prefix on generate_tree's tree returns a match,
\* its prefix is a non-empty prefix of the input, it is exactly the text of an
\* entry of the literal list and its name is the name of an entry with that
\* text; and it returns None exactly when no non-empty literal of the list is a
\* prefix of the input.
C14_MatchIsALiteral ==
    phase = "matched" =>
        /\ IsSome(matched) =>
              /\ matched[1].prefix # <<>>
              /\ IsPrefix(matched[1].prefix, input)
              /\ \E k \in 1..Len(literals) :
                    /\ literals[k].literal = matched[1].prefix
                    /\ literals[k].name = matched[1].value
        /\ matched = None <=>
              ~\E k \in 1..Len(literals) :
                    literals[k].literal # <<>> /\ IsPrefix(literals[k].literal, input)

\* C14's case: the match is a literal of two characters and three bytes, the
\* input goes on after it, and the list has an empty literal as well.
C14_Witness ==
    /\ phase = "matched"
    /\ IsSome(matched)
    /\ Len(matched[1].prefix) = 2
    /\ str_len(matched[1].prefix) = 3
    /\ Len(input) > 2
    /\ \E k \in 1..Len(literals) : literals[k].literal = <<>>
    /\ \E k \in 1..Len(literals) : literals[k].literal = matched[1].prefix

\* Whether the texts of a literal list are pairwise distinct.
DistinctTexts(lits) ==
    \A j, k \in 1..Len(lits) : lits[j].literal = lits[k].literal => j = k

\* The orderings of a sequence.
Orderings(s) ==
    {[k \in 1..Len(s) |-> s[f[k]]] :
        f \in {g \in [1..Len(s) -> 1..Len(s)] : \A i, j \in 1..Len(s) : g[i] = g[j] => i = j}}

\* C15: generate_tree does not depend on the order of insertion: when the
\* texts of the literals are pairwise distinct, every ordering of the list gives
\* the same tree, whether generate_tree sorts it first or the literals are
\* inserted in that order as they come, and no insertion undoes another: each
\* non-empty literal is matched in full, with its own name, on its own text.
C15_OrderIndependent ==
    (phase = "tree" /\ DistinctTexts(literals)) =>
        /\ \A o \in Orderings(literals) :
              /\ generate_tree(o) = tree
              /\ InsertAll(TreeDefault, o, 1) = tree
        /\ \A k \in 1..Len(literals) :
              literals[k].literal # <<>> =>
                  match_longest_prefix(tree, literals[k].literal)
                      = Some([prefix |-> literals[k].literal, value |-> literals[k].name])

\* C15's case: the list has a literal and, after it, a longer one that begins
\* with it, so the sort reverses them, and the tree keeps both.
C15_Witness ==
    /\ phase = "tree"
    /\ Len(literals) = 2
    /\ literals[1].literal # <<>>
    /\ Len(literals[2].literal) > Len(literals[1].literal)
    /\ IsPrefix(literals[1].literal, literals[2].literal)
    /\ SortedItems(literals) = <<literals[2], literals[1]>>
    /\ match_longest_prefix(tree, literals[1].literal)
          = Some([prefix |-> literals[1].literal, value |-> literals[1].name])
    /\ match_longest_prefix(tree, literals[2].literal)
          = Some([prefix |-> literals[2].literal, value |-> literals[2].name])

\* The nodes of a tree, each with the characters on the path from the root
\* to it.
RECURSIVE NodesOf(_, _)
NodesOf(t, path) ==
    {[path |-> path, node |-> t]}
        \cup UNION {NodesOf(t.children[c], Append(path, c)) : c \in DOMAIN t.children}

\* The names that a literal list gives to a text.
NamesOf(lits, text) == {lits[k].name : k \in {j \in 1..Len(lits) : lits[j].literal = text}}

\* C16: in every tree that generate_tree returns, a node has a value exactly
\* when the path to it spells a non-empty literal of the list, and the value is
\* a name the list gives to that text; every non-empty literal has its node;
\* the root has no value; every other node without children has a value; and
\* the tree of the empty list is the default tree.
C16_TreeStructure ==
    phase = "tree" =>
        /\ \A n \in NodesOf(tree, <<>>) :
              /\ IsSome(n.node.value) <=> (n.path # <<>> /\ NamesOf(literals, n.path) # {})
              /\ IsSome(n.node.value) => n.node.value[1] \in NamesOf(literals, n.path)
              /\ (n.path # <<>> /\ DOMAIN n.node.children = {}) => IsSome(n.node.value)
        /\ \A k \in 1..Len(literals) :
              \E n \in NodesOf(tree, <<>>) : n.path = literals[k].literal
        /\ tree.value = None
        /\ (\A k \in 1..Len(literals) : literals[k].literal = <<>>) <=> tree = TreeDefault

\* C16's case: of two literals one begins with the other and the list has no
\* other text, so the tree has a routing root, a node with a value and a child,
\* and a leaf.
C16_Witness ==
    /\ phase = "tree"
    /\ Len(literals) = 2
    /\ Len(literals[1].literal) = 1
    /\ Len(literals[2].literal) = 2
    /\ IsPrefix(literals[1].literal, literals[2].literal)
    /\ Cardinality(NodesOf(tree, <<>>)) = 3
    /\ \E n \in NodesOf(tree, <<>>) :
          IsSome(n.node.value) /\ DOMAIN n.node.children # {}
    /\ \E n \in NodesOf(tree, <<>>) :
          IsSome(n.node.value) /\ DOMAIN n.node.children = {}

\* The index of the last entry of a literal list with a given text.
LastWith(lits, text) ==
    CHOOSE k \in 1..Len(lits) :
        /\ lits[k].literal = text
        /\ \A j \in (k + 1)..Len(lits) : lits[j].literal # text

\* C17: when entries of the list have the same text, the node of that text
\* has one value, the name of the last of them in the order of the list as the
\* caller gave it, and a probe of that text returns that name.
C17_LaterDuplicateWins ==
    phase = "tree" =>
        \A k \in 1..Len(literals) :
            literals[k].literal # <<>> =>
                LET text == literals[k].literal
                    name == literals[LastWith(literals, text)].name
                IN /\ \A n \in NodesOf(tree, <<>>) :
                         n.path = text => n.node.value = Some(name)
                   /\ Cardinality({n \in NodesOf(tree, <<>>) : n.path = text}) = 1
                   /\ match_longest_prefix(tree, text) = Some([prefix |-> text, value |-> name])

\* C17's case: two entries with the same text of two bytes and different
\* names; the tree has the second one's name.
C17_Witness ==
    /\ phase = "tree"
    /\ Len(literals) = 2
    /\ literals[1].literal = literals[2].literal
    /\ str_len(literals[1].literal) = 2
    /\ literals[1].name # literals[2].name
    /\ match_longest_prefix(tree, literals[1].literal)
          = Some([prefix |-> literals[1].literal, value |-> literals[2].name])

---------------------------------------------------------------------------
(* The preprocessor's runs on one pattern source. *)

PatternChars == {"^", "[", "\\", "x", "U+00E9"}

AnchorInit ==
    /\ phase = "source"
    /\ pattern \in StringsUpTo(PatternChars, MaxPatLen)
    /\ anchored = <<>>
    /\ literals = <<>>
    /\ tree = TreeDefault
    /\ input = <<>>
    /\ matched = None
    /\ patterns = <<>>
    /\ prepared = None
    /\ NoScan

ForceStartAnchor ==
    /\ phase = "source"
    /\ anchored' = force_start_anchor(pattern)
    /\ phase' = "anchored"
    /\ UNCHANGED <<literals, tree, input, matched, pattern, patterns, prepared,
                   convert_crlf, scans, collected>>

\* force_start_anchor on its own result: the caller anchors a source that is
\* already anchored.
ForceStartAnchorAgain ==
    /\ phase = "anchored"
    /\ pattern' = anchored
    /\ anchored' = force_start_anchor(anchored)
    /\ phase' = "reanchored"
    /\ UNCHANGED <<literals, tree, input, matched, patterns, prepared,
                   convert_crlf, scans, collected>>

AnchorNext == ForceStartAnchor \/ ForceStartAnchorAgain

SpecAnchor == AnchorInit /\ [][AnchorNext]_vars

\* The source with the carets deleted that are not preceded by '[' or '\'.
Cleaned(p) == SelectSeq([k \in 1..Len(p) |-> <<k, p[k]>>],
                        LAMBDA e : ~IsAnchor(p, e[1]))

CleanedText(p) == [k \in 1..Len(Cleaned(p)) |-> Cleaned(p)[k][2]]

\* C2: for every pattern source, characters of more than one byte included,
\* force_start_anchor returns '^(?:' + C + ')' where C is the source without
\* exactly the carets that are not immediately preceded by '[' or '\'.
C2_AnchorsRemovedEverywhere ==
    phase = "anchored" => anchored = Wrap(CleanedText(pattern))

\* What an anchored source holds between '^(?:' and ')'.
Body(a) == SubSeq(a, 5, Len(a) - 1)

\* C11: anchoring is idempotent in effect: for every source whose anchored
\* form is '^(?:' + C + ')', anchoring that form again removes only its leading
\* caret and gives '^(?:(?:' + C + '))', no caret of C deleted and no other
\* character either.
C11_SecondPassKeepsBody ==
    phase = "reanchored" =>
        /\ pattern = Wrap(Body(pattern))
        /\ anchored = Wrap(<<"(", "?", ":">> \o Body(pattern) \o <<")">>)

\* The characters of a string that are not carets, in order.
NonCarets(s) == SelectSeq(s, LAMBDA c : c # "^")

\* The (1-based) indices of the characters that the deletion drops: those whose
\* count from enumerate is among the collected indices.
Deleted(p) == {k \in 1..Len(p) : (k - 1) \in anchor_indices(p)}

\* C18: force_start_anchor deletes only carets: for every source, characters
\* of more than one byte included, the characters other than carets are all in
\* the result between '^(?:' and ')', in their order, and the characters
\* deleted are exactly the ones the filter classified as anchors.
C18_OnlyCaretsDeleted ==
    phase = "anchored" =>
        /\ anchored = Wrap(Body(anchored))
        /\ NonCarets(Body(anchored)) = NonCarets(pattern)
        /\ Deleted(pattern) = {k \in 1..Len(pattern) : IsAnchor(pattern, k)}

---------------------------------------------------------------------------
(* The preprocessor's runs on a pattern list. *)

PatternNames == {"foo", "bar"}

\* The sources of the tests of patterns.rs, and one with a two-byte character.
PrepareSources ==
    { <<>>,
      <<"\\", "d", "+">>,
      <<"+">>,
      <<"[", "0", "-", "9", "]">>,
      <<"[", "0", "-", "9">>,
      <<"x", "|", "^", "y">>,
      <<"U+00E9", "^", "x">> }

PrepareInit ==
    /\ phase = "patterns"
    /\ patterns \in SeqsUpTo([name : PatternNames, source : PrepareSources], MaxPats)
    /\ prepared = None
    /\ pattern = <<>>
    /\ anchored = <<>>
    /\ literals = <<>>
    /\ tree = TreeDefault
    /\ input = <<>>
    /\ matched = None
    /\ NoScan

Prepare ==
    /\ phase = "patterns"
    /\ prepared' = Some(prepare(patterns))
    /\ phase' = "prepared"
    /\ UNCHANGED <<literals, tree, input, matched, pattern, anchored, patterns,
                   convert_crlf, scans, collected>>

PrepareNext == Prepare

SpecPrepare == PrepareInit /\ [][PrepareNext]_vars

\* Whether pattern k of the list compiles once anchored.
Compiles(ps, k) == RegexNew(force_start_anchor(ps[k].source)).ok

\* The patterns of the list that fail to compile.
Failing(ps) == {k \in 1..Len(ps) : ~Compiles(ps, k)}

FirstFailing(ps) == CHOOSE k \in Failing(ps) : \A j \in Failing(ps) : k <= j

\* The list with the name of entry k replaced.
Renamed(ps, k, n) == [ps EXCEPT ![k].name = n]

\* C3: prepare is all-or-nothing: it returns Ok exactly when every pattern of
\* the list compiles, and an Err exposes no compiled pattern, whatever the
\* other patterns are.
C3_AllOrNothing ==
    phase = "prepared" =>
        /\ prepared[1].ok <=> Failing(patterns) = {}
        /\ ~prepared[1].ok => DOMAIN prepared[1] = {"ok", "error"}
        /\ prepared[1].ok => Len(prepared[1].value) = Len(patterns)

\* C3's case: one pattern of the list compiles, another does not, and prepare
\* returned an Err.
C3_Witness ==
    /\ phase = "prepared"
    /\ Len(patterns) = 2
    /\ Compiles(patterns, 1)
    /\ ~Compiles(patterns, 2)
    /\ ~prepared[1].ok

\* C4 as claimed: the error of a failed prepare carries the name of the offending
\* pattern, so the same list with that pattern under another name gives another
\* error.
C4_ErrorCarriesName ==
    (phase = "prepared" /\ ~prepared[1].ok) =>
        \A n \in PatternNames :
            prepare(Renamed(patterns, FirstFailing(patterns), n)) = prepared[1]
                => n = patterns[FirstFailing(patterns)].name

\* C4 as amended: the error of a failed prepare is InvalidRegex carrying only the
\* compile failure of the first pattern, in input order, that fails to compile;
\* it is the same whatever the name of that pattern.
C4_ErrorCarriesCauseOnly ==
    (phase = "prepared" /\ ~prepared[1].ok) =>
        LET k == FirstFailing(patterns)
        IN /\ prepared[1].error =
                 [kind |-> "InvalidRegex",
                  cause |-> RegexNew(force_start_anchor(patterns[k].source)).error]
           /\ \A n \in PatternNames : prepare(Renamed(patterns, k, n)) = prepared[1]

\* C4's case: two patterns fail to compile for different reasons and prepare
\* returned the first one's failure.
C4_Witness ==
    /\ phase = "prepared"
    /\ Len(patterns) = 2
    /\ Failing(patterns) = {1, 2}
    /\ ~prepared[1].ok
    /\ prepared[1].error.cause.kind = "UnclosedClass"
    /\ RegexNew(force_start_anchor(patterns[2].source)).error.kind = "TargetNotRepeatable"

\* C5: a successful prepare returns one entry for each input pair, in input
\* order: the i-th name is the i-th input name and the i-th compiled source is
\* force_start_anchor of the i-th input source; entries of the same name are
\* all kept.
C5_OrderAndDuplicatesKept ==
    (phase = "prepared" /\ prepared[1].ok) =>
        /\ Len(prepared[1].value) = Len(patterns)
        /\ \A i \in 1..Len(patterns) :
              /\ prepared[1].value[i].name = patterns[i].name
              /\ prepared[1].value[i].regex.as_str = force_start_anchor(patterns[i].source)

\* C5's case: two entries of the same name and different sources, both kept.
C5_Witness ==
    /\ phase = "prepared"
    /\ prepared[1].ok
    /\ Len(patterns) = 2
    /\ patterns[1].name = patterns[2].name
    /\ patterns[1].source # patterns[2].source
    /\ Len(prepared[1].value) = 2

---------------------------------------------------------------------------
(* common.rs: the patterns of the catalog that the scans use, and what the   *)
(* regex engine matches for each of them at the start of a text.             *)

DIGIT == <<"[", "0", "-", "9", "]">>
LETTER == <<"[", "A", "-", "Z", "a", "-", "z", "]">>
C_NAME == <<"[", "_", "A", "-", "Z", "a", "-", "z", "]",
            "[", "_", "A", "-", "Z", "a", "-", "z", "\\", "d", "]", "*">>
NEWLINE == <<"\\", "r", "?", "\\", "n">>
EMPTY == <<>>

Letters ==
    {"a", "b", "c", "d", "e", "f", "g", "h", "i", "j", "k", "l", "m",
     "n", "o", "p", "q", "r", "s", "t", "u", "v", "w", "x", "y", "z",
     "A", "B", "C", "D", "E", "F", "G", "H", "I", "J", "K", "L", "M",
     "N", "O", "P", "Q", "R", "S", "T", "U", "V", "W", "X", "Y", "Z"}

\* The number of characters of text from index k on that lie in class S.
RECURSIVE RunLen(_, _, _)
RunLen(text, k, S) ==
    IF k <= Len(text) /\ text[k] \in S THEN 1 + RunLen(text, k + 1, S) ELSE 0

\* Regex::find on an anchored pattern: the length of the match at the start of
\* text, if there is one.
RegexFind(regex, text) ==
    CASE regex.as_str = Wrap(DIGIT) ->
            IF RunLen(text, 1, HexDigits) >= 1 THEN Some(1) ELSE None
      [] regex.as_str = Wrap(LETTER) ->
            IF RunLen(text, 1, Letters) >= 1 THEN Some(1) ELSE None
      [] regex.as_str = Wrap(C_NAME) ->
            IF RunLen(text, 1, Letters \cup {"_"}) >= 1
            THEN Some(1 + RunLen(text, 2, Letters \cup HexDigits \cup {"_"}))
            ELSE None
      [] regex.as_str = Wrap(NEWLINE) ->
            IF Len(text) >= 1 /\ text[1] = "\n" THEN Some(1)
            ELSE IF Len(text) >= 2 /\ text[1] = "\r" /\ text[2] = "\n" THEN Some(2)
            ELSE None
      [] regex.as_str = Wrap(EMPTY) -> Some(0)
      [] OTHER -> None

---------------------------------------------------------------------------
(* The tokenizer's dispatch loop, from section 4.3 of the specification. *)

\* Step 1: the text as the matchers see it: with convert_crlf, a carriage
\* return and line feed are one newline.
RECURSIVE MatchView(_, _)
MatchView(rest, crlf) ==
    IF rest = <<>> THEN <<>>
    ELSE IF crlf /\ Len(rest) >= 2 /\ rest[1] = "\r" /\ rest[2] = "\n"
         THEN <<"\n">> \o MatchView(SubSeq(rest, 3, Len(rest)), crlf)
         ELSE <<rest[1]>> \o MatchView(Tail(rest), crlf)

\* The number of characters of rest that the first n units of its view cover.
RECURSIVE SpanOf(_, _, _)
SpanOf(rest, crlf, n) ==
    IF n = 0 \/ rest = <<>> THEN 0
    ELSE IF crlf /\ Len(rest) >= 2 /\ rest[1] = "\r" /\ rest[2] = "\n"
         THEN 2 + SpanOf(SubSeq(rest, 3, Len(rest)), crlf, n - 1)
         ELSE 1 + SpanOf(Tail(rest), crlf, n - 1)

\* The text a literal match stands for in the input: the prefix the tree
\* returned, each newline that stands for a carriage return and line feed
\* written back as the two.
RECURSIVE ValueOf(_, _, _)
ValueOf(prefix, rest, crlf) ==
    IF prefix = <<>> THEN <<>>
    ELSE IF crlf /\ Len(rest) >= 2 /\ rest[1] = "\r" /\ rest[2] = "\n"
            /\ prefix[1] = "\n"
         THEN <<"\r", "\n">> \o ValueOf(Tail(prefix), SubSeq(rest, 3, Len(rest)), crlf)
         ELSE <<prefix[1]>> \o ValueOf(Tail(prefix), Tail(rest), crlf)

\* A faulty variant of step 3 that takes the first pattern with a match, an
\* empty match included.
RECURSIVE FirstPatternOrEmpty(_, _, _)
FirstPatternOrEmpty(compiled, text, k) ==
    IF k > Len(compiled) THEN None
    ELSE LET m == RegexFind(compiled[k].regex, text)
         IN IF IsSome(m)
            THEN Some([name |-> compiled[k].name, len |-> m[1]])
            ELSE FirstPatternOrEmpty(compiled, text, k + 1)

\* Step 3: the first pattern, in configuration order from k on, with a
\* non-empty match.
RECURSIVE FirstPattern(_, _, _)
FirstPattern(compiled, text, k) ==
    IF k > Len(compiled) THEN None
    ELSE LET m == RegexFind(compiled[k].regex, text)
         IN IF IsSome(m) /\ m[1] > 0
            THEN Some([name |-> compiled[k].name, len |-> m[1]])
            ELSE FirstPattern(compiled, text, k + 1)

\* Steps 2 to 6 at one offset (in characters): the Token or the BadToken.
NextItem(cfg, inp, offset) ==
    LET rest == SubSeq(inp, offset + 1, Len(inp))
        text == MatchView(rest, cfg.convert_crlf)
        lit == match_longest_prefix(cfg.tree, text)
        pat == FirstPattern(cfg.patterns, text, 1)
    IN IF IsSome(lit) /\ (~IsSome(pat) \/ Len(lit[1].prefix) >= pat[1].len)
       THEN [kind |-> "Token", name |-> lit[1].value,
             value |-> ValueOf(lit[1].prefix, rest, cfg.convert_crlf)]
       ELSE IF IsSome(pat)
       THEN [kind |-> "Token", name |-> pat[1].name,
             value |-> SubSeq(rest, 1, SpanOf(rest, cfg.convert_crlf, pat[1].len))]
       ELSE [kind |-> "BadToken", character |-> rest[1], position |-> offset]

\* A fresh lazy scan: tokenize(input) before its first next().
FreshScan == [offset |-> 0, out |-> <<>>, status |-> "running"]

\* A faulty variant of next() that, after a BadToken, moves past the unmatched
\* character and goes on.
ScanStepSkipping(cfg, inp, sc) ==
    IF sc.offset >= Len(inp)
    THEN [sc EXCEPT !.status = "done"]
    ELSE LET item == NextItem(cfg, inp, sc.offset)
         IN IF item.kind = "Token"
            THEN [sc EXCEPT !.out = Append(@, item),
                            !.offset = @ + Len(item.value)]
            ELSE [sc EXCEPT !.out = Append(@, item), !.offset = @ + 1]

\* One next() of a lazy scan: the end of the sequence once the input is
\* consumed or a BadToken was yielded, the next Token or BadToken otherwise.
ScanStep(cfg, inp, sc) ==
    IF sc.status = "failed" \/ sc.offset >= Len(inp)
    THEN [sc EXCEPT !.status = "done"]
    ELSE LET item == NextItem(cfg, inp, sc.offset)
         IN IF item.kind = "Token"
            THEN [sc EXCEPT !.out = Append(@, item),
                            !.offset = @ + Len(item.value)]
            ELSE [sc EXCEPT !.out = Append(@, item), !.status = "failed"]

\* A faulty variant of the scans in which the cursor belongs to the tokenizer and
\* not to the scan.
StepOfSharedCursor(all, i, cfg, inp) ==
    LET stepped == ScanStep(cfg, inp, all[i])
    IN [j \in DOMAIN all |->
            IF j = i THEN stepped ELSE [all[j] EXCEPT !.offset = stepped.offset]]

\* The scans after scan i took one step: the other scans are untouched.
StepOf(all, i, cfg, inp) == [all EXCEPT ![i] = ScanStep(cfg, inp, all[i])]

\* The aggregate form, collecting a fresh scan from offset on: the tokens, or
\* the first BadToken alone.
RECURSIVE CollectScan(_, _, _, _)
CollectScan(cfg, inp, offset, acc) ==
    IF offset >= Len(inp) THEN [ok |-> TRUE, value |-> acc]
    ELSE LET item == NextItem(cfg, inp, offset)
         IN IF item.kind = "Token"
            THEN CollectScan(cfg, inp, offset + Len(item.value), Append(acc, item))
            ELSE [ok |-> FALSE, error |-> item]

---------------------------------------------------------------------------
(* The tokenizer's runs: build a configuration, then scan one input with two *)
(* lazy scans, their steps interleaved, and with the aggregate form.         *)

ScanChars == {"a", "1", "+", "\r", "\n", "U+00E9"}
ScanIds == {1, 2}

\* The literal lists of the configurations.
Plus == <<[name |-> "add", literal |-> <<"+">>], [name |-> "mu", literal |-> <<"+", "+">>]>>
Keyword == <<[name |-> "kw", literal |-> <<"a">>], [name |-> "acute", literal |-> <<"U+00E9">>]>>
Line == <<[name |-> "a1", literal |-> <<"a", "1">>], [name |-> "nl", literal |-> <<"\n">>]>>
Blank == <<[name |-> "nil", literal |-> <<>>], [name |-> "add", literal |-> <<"+">>]>>

\* The pattern of a configuration, by its name in the catalog.
Named(name, source) == [name |-> name, source |-> source]

\* The configurations: literals alone, patterns alone, both, a pattern that
\* matches the empty string, an empty literal, a pattern that does not compile,
\* and nothing.
ScanConfigs ==
    { [literals |-> <<>>, patterns |-> <<>>],
      [literals |-> Plus, patterns |-> <<>>],
      [literals |-> <<>>, patterns |-> <<Named("digit", DIGIT)>>],
      [literals |-> Keyword, patterns |-> <<Named("digit", DIGIT)>>],
      [literals |-> Keyword,
       patterns |-> <<Named("letter", LETTER), Named("c_name", C_NAME)>>],
      [literals |-> Keyword,
       patterns |-> <<Named("c_name", C_NAME), Named("newline", NEWLINE)>>],
      [literals |-> Line,
       patterns |-> <<Named("c_name", C_NAME), Named("newline", NEWLINE)>>],
      [literals |-> Plus,
       patterns |-> <<Named("empty", EMPTY), Named("digit", DIGIT)>>],
      [literals |-> Blank,
       patterns |-> <<Named("empty", EMPTY), Named("digit", DIGIT)>>],
      [literals |-> Plus, patterns |-> <<Named("digit", <<"[", "0", "-", "9">>)>>] }

\* The configuration the scans read.
Config == [tree |-> tree, patterns |-> prepared[1].value, convert_crlf |-> convert_crlf]

ScanInit ==
    /\ phase = "new"
    /\ \E c \in ScanConfigs : literals = c.literals /\ patterns = c.patterns
    /\ convert_crlf \in BOOLEAN
    /\ input \in StringsUpTo(ScanChars, MaxScanLen)
    /\ tree = TreeDefault
    /\ prepared = None
    /\ scans = [i \in ScanIds |-> FreshScan]
    /\ collected = None
    /\ matched = None
    /\ pattern = <<>>
    /\ anchored = <<>>

\* Construction: the tree and the compiled patterns; it fails when a pattern
\* does not compile, and then there is no tokenizer to scan with.
Configure ==
    /\ phase = "new"
    /\ tree' = generate_tree(literals)
    /\ prepared' = Some(prepare(patterns))
    /\ phase' = IF prepare(patterns).ok THEN "ready" ELSE "invalid"
    /\ UNCHANGED <<literals, input, matched, pattern, anchored, patterns,
                   convert_crlf, scans, collected>>

\* One next() of lazy scan i.
ScanNext(i) ==
    /\ phase = "ready"
    /\ scans[i].status # "done"
    /\ scans' = StepOf(scans, i, Config, input)
    /\ UNCHANGED <<phase, literals, tree, input, matched, pattern, anchored, patterns,
                   prepared, convert_crlf, collected>>

\* The aggregate form on the same input, once the lazy scans have ended.
TokenizeAll ==
    /\ phase = "ready"
    /\ \A i \in DOMAIN scans : scans[i].status = "done"
    /\ collected = None
    /\ collected' = Some(CollectScan(Config, input, 0, <<>>))
    /\ UNCHANGED <<phase, literals, tree, input, matched, pattern, anchored, patterns,
                   prepared, convert_crlf, scans>>

ScanNextAny == \E i \in DOMAIN scans : ScanNext(i)

SpecScanNext == Configure \/ ScanNextAny \/ TokenizeAll

SpecScan == ScanInit /\ [][SpecScanNext]_vars

\* The configurations in which something can match the empty string: the
\* empty pattern, an empty literal.
EmptyMatching(c) ==
    \/ \E k \in 1..Len(c.patterns) : c.patterns[k].source = EMPTY
    \/ \E k \in 1..Len(c.literals) : c.literals[k].literal = <<>>

\* One scan under one of those configurations.
ScanLiveInit ==
    /\ phase = "new"
    /\ \E c \in {d \in ScanConfigs : EmptyMatching(d)} :
          literals = c.literals /\ patterns = c.patterns
    /\ convert_crlf \in BOOLEAN
    /\ input \in StringsUpTo(ScanChars, MaxScanLen)
    /\ tree = TreeDefault
    /\ prepared = None
    /\ scans = [i \in {1} |-> FreshScan]
    /\ collected = None
    /\ matched = None
    /\ pattern = <<>>
    /\ anchored = <<>>

\* The runs of that scan in which its consumer keeps calling next() until the
\* sequence ends, as collect and for loops do.
SpecScanLive ==
    /\ ScanLiveInit
    /\ [][SpecScanNext]_vars
    /\ WF_vars(ScanNextAny)

---------------------------------------------------------------------------
(* Claims about the scans. *)

\* The values of the tokens of a sequence of results, joined.
RECURSIVE JoinValues(_)
JoinValues(items) ==
    IF items = <<>> THEN <<>>
    ELSE (IF Head(items).kind = "Token" THEN Head(items).value ELSE <<>>)
         \o JoinValues(Tail(items))

HasBadToken(items) == \E k \in 1..Len(items) : items[k].kind = "BadToken"

\* The offset, in characters, at which item k of a scan's results was produced.
PosOf(items, k) == Len(JoinValues(SubSeq(items, 1, k - 1)))

\* The text the matchers see at an offset of the input.
TextAt(offset) == MatchView(SubSeq(input, offset + 1, Len(input)), convert_crlf)

\* The length of the non-empty match of the configured pattern k on a text, 0
\* when it has none.
PatternLen(k, text) ==
    LET m == RegexFind(prepared[1].value[k].regex, text)
    IN IF IsSome(m) THEN m[1] ELSE 0

\* The configured literals that are non-empty prefixes of a text.
LiteralHits(text) ==
    {k \in 1..Len(literals) :
        literals[k].literal # <<>> /\ IsPrefix(literals[k].literal, text)}

\* The configured patterns with a non-empty match on a text.
PatternHits(text) == {k \in 1..Len(patterns) : PatternLen(k, text) > 0}

NothingMatches(offset) ==
    LiteralHits(TextAt(offset)) = {} /\ PatternHits(TextAt(offset)) = {}

\* C6: round trip: a scan that ended without an error yielded tokens whose
\* values, joined in order, are the input exactly, so they cover contiguous
\* spans of it; the empty input gives no token; and the same holds of the
\* aggregate form's tokens.
C6_RoundTrip ==
    /\ \A i \in DOMAIN scans :
          (scans[i].status = "done" /\ ~HasBadToken(scans[i].out)) =>
              /\ JoinValues(scans[i].out) = input
              /\ (input = <<>> => scans[i].out = <<>>)
    /\ (IsSome(collected) /\ collected[1].ok) =>
          /\ JoinValues(collected[1].value) = input
          /\ (input = <<>> => collected[1].value = <<>>)

\* C6's case: a scan of three characters ended without an error, its tokens
\* being a literal of two bytes and a carriage return with its line feed, read
\* as one newline.
C6_Witness ==
    /\ phase = "ready"
    /\ convert_crlf
    /\ scans[1].status = "done"
    /\ Len(scans[1].out) = 2
    /\ scans[1].out[1] = [kind |-> "Token", name |-> "acute", value |-> <<"U+00E9">>]
    /\ scans[1].out[2] = [kind |-> "Token", name |-> "newline", value |-> <<"\r", "\n">>]
    /\ input = <<"U+00E9", "\r", "\n">>

\* C7: a scan yields a BadToken exactly at an offset where no literal and no
\* pattern matches; its character is the character at that offset and its
\* position is the offset in characters, which is the number of characters of
\* the tokens yielded before it.
C7_BadTokenPosition ==
    \A i \in DOMAIN scans :
        \A k \in 1..Len(scans[i].out) :
            LET item == scans[i].out[k]
                pos == PosOf(scans[i].out, k)
            IN /\ item.kind = "BadToken" <=> NothingMatches(pos)
               /\ item.kind = "BadToken" =>
                     /\ item.position = pos
                     /\ pos < Len(input)
                     /\ item.character = input[pos + 1]

\* C7's case: after a token of one character and two bytes, the BadToken is at
\* position 1, not 2.
C7_Witness ==
    /\ phase = "ready"
    /\ Len(scans[1].out) = 2
    /\ scans[1].out[1].kind = "Token"
    /\ str_len(scans[1].out[1].value) = 2
    /\ scans[1].out[2] = [kind |-> "BadToken", character |-> "+", position |-> 1]

\* C8: at each offset the pattern candidate is the first pattern, in
\* configuration order, with a non-empty match (not the longest), the literal
\* candidate is the longest literal that is a prefix, and the token is the
\* longer candidate, the literal when the two are equally long.
C8_Selection ==
    \A i \in DOMAIN scans :
        \A k \in 1..Len(scans[i].out) :
            LET item == scans[i].out[k]
                pos == PosOf(scans[i].out, k)
                text == TextAt(pos)
                lits == LiteralHits(text)
                pats == PatternHits(text)
                lit == CHOOSE l \in lits :
                          \A m \in lits : Len(literals[l].literal) >= Len(literals[m].literal)
                pat == CHOOSE q \in pats : \A m \in pats : q <= m
                span(n) == SpanOf(SubSeq(input, pos + 1, Len(input)), convert_crlf, n)
            IN item.kind = "Token" =>
                  IF lits # {} /\ (pats = {} \/ Len(literals[lit].literal) >= PatternLen(pat, text))
                  THEN /\ item.name = literals[lit].name
                       /\ Len(item.value) = span(Len(literals[lit].literal))
                  ELSE /\ pats # {}
                       /\ item.name = patterns[pat].name
                       /\ Len(item.value) = span(PatternLen(pat, text))

\* C8's case: on "a1" the literal "a" and the first pattern, one letter, are
\* equally long and the second pattern would match both characters: the token
\* is the literal's.
C8_Witness ==
    /\ phase = "ready"
    /\ input = <<"a", "1">>
    /\ Len(patterns) = 2
    /\ PatternLen(1, input) = 1
    /\ PatternLen(2, input) = 2
    /\ Len(scans[1].out) >= 1
    /\ scans[1].out[1] = [kind |-> "Token", name |-> "kw", value |-> <<"a">>]

\* C9: the aggregate form fails fast: it returns an error exactly when the
\* lazy scan of the same input yields a BadToken, the error is that BadToken,
\* at the first offset of the scan where nothing matches, and none of the
\* tokens before it is returned; otherwise it returns all the tokens of the
\* lazy scan, which cover the whole input.
C9_AggregateFailsFast ==
    IsSome(collected) =>
        LET r == collected[1]
            lazy == scans[1].out
        IN /\ scans[1].status = "done"
           /\ r.ok <=> ~HasBadToken(lazy)
           /\ r.ok => (r.value = lazy /\ JoinValues(r.value) = input)
           /\ ~r.ok =>
                 /\ DOMAIN r = {"ok", "error"}
                 /\ r.error = lazy[Len(lazy)]
                 /\ r.error.kind = "BadToken"
                 /\ NothingMatches(r.error.position)
                 /\ \A k \in 1..(Len(lazy) - 1) :
                       lazy[k].kind = "Token" /\ ~NothingMatches(PosOf(lazy, k))

\* C9's case: the lazy scan yielded a token and then a BadToken, and the
\* aggregate form returned the BadToken alone.
C9_Witness ==
    /\ IsSome(collected)
    /\ ~collected[1].ok
    /\ collected[1].error.position > 0
    /\ Len(scans[1].out) >= 2
    /\ scans[1].out[1].kind = "Token"

\* Whether one sequence of results is the beginning of the other.
Agree(a, b) ==
    \/ Len(a) <= Len(b) /\ SubSeq(b, 1, Len(a)) = a
    \/ Len(b) <= Len(a) /\ SubSeq(a, 1, Len(b)) = b

C12_BadTokenIsLast ==
    /\ [](\A i \in DOMAIN scans :
            \A k \in 1..Len(scans[i].out) :
                scans[i].out[k].kind = "BadToken" =>
                    /\ k = Len(scans[i].out)
                    /\ scans[i].status # "running"
                    /\ scans[i].offset = scans[i].out[k].position)
    /\ [][\A i \in DOMAIN scans :
            HasBadToken(scans[i].out) =>
                /\ scans'[i].out = scans[i].out
                /\ scans'[i].offset = scans[i].offset]_vars

\* C12's case: a scan of three characters has ended after a token and a
\* BadToken at the second character, the third character never looked at.
C12_Witness ==
    /\ phase = "ready"
    /\ Len(input) = 3
    /\ scans[2].status = "done"
    /\ Len(scans[2].out) = 2
    /\ scans[2].out[1].kind = "Token"
    /\ scans[2].out[2].kind = "BadToken"
    /\ scans[2].out[2].position = 1
    /\ scans[2].offset = 1

\* C13: every scan terminates: each token a scan yields has a non-empty value,
\* so each yielding step moves the offset forward and a scan yields at most as
\* many elements as the input has characters, and every scan whose consumer
\* keeps asking comes to its end; this with a pattern that matches the empty
\* string and with an empty literal in the configuration as well.
C13_ScanTerminates ==
    /\ [](\A i \in DOMAIN scans :
            /\ Len(scans[i].out) <= Len(input)
            /\ scans[i].offset <= Len(input)
            /\ \A k \in 1..Len(scans[i].out) :
                   scans[i].out[k].kind = "Token" => scans[i].out[k].value # <<>>)
    /\ [][\A i \in DOMAIN scans :
            (scans'[i].out # scans[i].out /\ scans'[i].status = "running") =>
                scans'[i].offset > scans[i].offset]_vars
    /\ (phase = "ready") ~> (\A i \in DOMAIN scans : scans[i].status = "done")

\* C13's case: under a configuration with an empty literal and the empty
\* pattern, a scan of three characters has ended after three tokens.
C13_Witness ==
    /\ phase = "ready"
    /\ \E k \in 1..Len(literals) : literals[k].literal = <<>>
    /\ \E k \in 1..Len(patterns) :
          /\ patterns[k].source = EMPTY
          /\ RegexFind(prepared[1].value[k].regex, input) = Some(0)
    /\ Len(input) = 3
    /\ scans[1].status = "done"
    /\ Len(scans[1].out) = 3
    /\ ~HasBadToken(scans[1].out)

====
